---- MODULE Spec2Model ----
(***************************************************************************)
(* Model of risinglight's src/array/mod.rs: the Array / ArrayBuilder       *)
(* traits, the ArrayImpl / ArrayBuilderImpl tagged unions and the textual  *)
(* ingestion path push_str.                                                *)
(*                                                                         *)
(* A text is a sequence of one-character strings.  A scalar is carried by  *)
(* its canonical display text, so that every value of the model has one    *)
(* TLA+ type.  A concrete array or builder is a value buffer `data` and a  *)
(* validity vector `valid`; the tagged unions add the case tag `tag`.      *)
(***************************************************************************)
EXTENDS Integers, Sequences, FiniteSets, TLC

\* ------------------------------------------------------------------ bounds

\* Most entries of a builder under SpecIngest.
MaxLen == 2
\* Most entries of an array under SpecArray.
MaxArr == 3
\* Most entries of a builder or an array under Spec and SpecAppend.
MaxLife == 2
\* Largest count handed to push_n and reserve.
MaxN == 2
\* Width of usize in the model, in bits: indices are taken modulo 2^UsizeBits.
UsizeBits == 3

UsizeMax == (2 ^ UsizeBits) - 1

\* ------------------------------------------------------------------- kinds

Kinds == {"Null", "Bool", "Int16", "Int32", "Int64", "Float64", "Decimal", "Date",
          "Timestamp", "TimestampTz", "Interval", "String", "Blob", "Vector"}

KindsWithoutNull == Kinds \ {"Null"}

\* DataType: one case per kind, and the composite Struct case.
DataTypes == Kinds \cup {"Struct"}

\* ------------------------------------------------------------------- texts

Digits == <<"0", "1", "2", "3", "4", "5", "6", "7", "8", "9">>

IsDigit(c) == \E i \in 1..10 : Digits[i] = c

DigitVal(c) == (CHOOSE i \in 1..10 : Digits[i] = c) - 1

T_empty == <<>>
T_true == <<"t", "r", "u", "e">>
T_false == <<"f", "a", "l", "s", "e">>
T_zero == <<"0">>
T_42 == <<"4", "2">>
T_plus7 == <<"+", "7">>
T_7 == <<"7">>
T_minus0 == <<"-", "0">>
T_40000 == <<"4", "0", "0", "0", "0">>
T_3e9 == <<"3", "0", "0", "0", "0", "0", "0", "0", "0", "0">>
T_2p63 == <<"9", "2", "2", "3", "3", "7", "2", "0", "3", "6", "8", "5", "4", "7", "7",
            "5", "8", "0", "8">>
T_nan == <<"n", "o", "t", "_", "a", "_", "n", "u", "m", "b", "e", "r">>
T_1p5 == <<"1", ".", "5">>
T_date == <<"2", "0", "2", "4", "-", "0", "1", "-", "0", "1">>
T_ts == T_date \o <<" ", "0", "0", ":", "0", "0", ":", "0", "0">>
T_tstz == T_ts \o <<"+", "0", "0">>
T_day == <<"1", " ", "d", "a", "y">>
T_blob == <<"\\", "x", "0", "1">>
T_vec == <<"[", "1", "]">>
T_date2 == <<"1", "9", "7", "0", "-", "0", "1", "-", "0", "1">>
T_ts2 == T_date2 \o <<" ", "0", "0", ":", "0", "0", ":", "0", "0">>
T_tstz2 == T_ts2 \o <<"+", "0", "0">>
T_day2 == <<"2", " ", "d", "a", "y", "s">>
T_blob2 == <<"a">>
T_vec2 == <<"[", "2", "]">>
T_NULL == <<"N", "U", "L", "L">>

\* The texts handed to push_str.
Texts == {T_empty, T_true, T_42, T_plus7, T_minus0, T_40000, T_3e9, T_2p63, T_nan,
          T_1p5, T_date, T_ts, T_tstz, T_day, T_blob, T_vec}

\* ----------------------------------------------------------------- parsing

ParseOk(v) == [ok |-> TRUE, v |-> v]
ParseErr == [ok |-> FALSE, v |-> <<>>]

\* str::parse::<bool>: exactly "true" and "false".
ParseBool(s) == IF s = T_true \/ s = T_false THEN ParseOk(s) ELSE ParseErr

RECURSIVE StripZeros(_)
StripZeros(d) == IF d # <<>> /\ Head(d) = "0" THEN StripZeros(Tail(d)) ELSE d

\* a <= b for two digit sequences without leading zeros.
RECURSIVE LexLeq(_, _)
LexLeq(a, b) ==
    IF a = <<>> THEN TRUE
    ELSE IF DigitVal(Head(a)) < DigitVal(Head(b)) THEN TRUE
    ELSE IF DigitVal(Head(a)) > DigitVal(Head(b)) THEN FALSE
    ELSE LexLeq(Tail(a), Tail(b))

MagLeq(a, b) == Len(a) < Len(b) \/ (Len(a) = Len(b) /\ LexLeq(a, b))

I16Max == <<"3", "2", "7", "6", "7">>
I16MinMag == <<"3", "2", "7", "6", "8">>
I32Max == <<"2", "1", "4", "7", "4", "8", "3", "6", "4", "7">>
I32MinMag == <<"2", "1", "4", "7", "4", "8", "3", "6", "4", "8">>
I64Max == <<"9", "2", "2", "3", "3", "7", "2", "0", "3", "6", "8", "5", "4", "7", "7",
            "5", "8", "0", "7">>
I64MinMag == <<"9", "2", "2", "3", "3", "7", "2", "0", "3", "6", "8", "5", "4", "7", "7",
               "5", "8", "0", "8">>

\* str::parse for a signed integer: an optional sign, then at least one digit
\* and digits only, and a magnitude within the type's range.  The value is its
\* decimal display: no "+", no leading zeros, "-0" is "0".
ParseInt(s, max, minMag) ==
    IF s = <<>> THEN ParseErr
    ELSE LET neg == Head(s) = "-"
             signed == Head(s) \in {"+", "-"}
             body == IF signed THEN Tail(s) ELSE s
             mag == StripZeros(body)
         IN IF body = <<>> \/ (\E i \in 1..Len(body) : ~IsDigit(body[i])) THEN ParseErr
            ELSE IF ~MagLeq(mag, IF neg THEN minMag ELSE max) THEN ParseErr
            ELSE IF mag = <<>> THEN ParseOk(T_zero)
            ELSE IF neg THEN ParseOk(<<"-">> \o mag)
            ELSE ParseOk(mag)

\* A decimal number: an optional sign, digits, at most one point, at least one digit.
IsDecimalText(s) ==
    /\ s # <<>>
    /\ LET body == IF Head(s) \in {"+", "-"} THEN Tail(s) ELSE s
       IN /\ \E i \in 1..Len(body) : IsDigit(body[i])
          /\ \A i \in 1..Len(body) : IsDigit(body[i]) \/ body[i] = "."
          /\ Cardinality({i \in 1..Len(body) : body[i] = "."}) <= 1

\* The value of a decimal text, as its display: a leading "+" is dropped.
ParseNumber(s) ==
    IF IsDecimalText(s)
    THEN ParseOk(IF Head(s) = "+" THEN Tail(s) ELSE s)
    ELSE ParseErr

\* The parsers of crate::types, each by the literals it accepts.
ParseFloat(s) == ParseNumber(s)
ParseDecimal(s) == ParseNumber(s)
ParseDate(s) == IF s = T_date THEN ParseOk(s) ELSE ParseErr
ParseTimestamp(s) == IF s = T_ts THEN ParseOk(s) ELSE ParseErr
ParseTimestampTz(s) == IF s = T_tstz THEN ParseOk(s) ELSE ParseErr
ParseInterval(s) == IF s = T_day THEN ParseOk(s) ELSE ParseErr
ParseBlob(s) == IF s = T_blob THEN ParseOk(s) ELSE ParseErr
ParseVector(s) == IF s = T_vec THEN ParseOk(s) ELSE ParseErr

\* ----------------------------------------------- concrete arrays, builders

\* Option<&Item>.
NoneOpt == [some |-> FALSE, v |-> <<>>]
SomeOpt(v) == [some |-> TRUE, v |-> v]

Rep(n, x) == [i \in 1..n |-> x]

\* The raw value a builder stores at a null position.
DefaultItem(item) ==
    CASE item = "Bool" -> T_false
      [] item \in {"Int16", "Int32", "Int64", "Float64", "Decimal"} -> T_zero
      [] OTHER -> <<>>

\* ArrayBuilder::with_capacity of the concrete builder for `item`: empty.
Builder_with_capacity(item, capacity) == [item |-> item, data |-> <<>>, valid |-> <<>>]

\* ArrayBuilder::new.
Builder_new(item) == Builder_with_capacity(item, 0)

\* ArrayBuilder::reserve: capacity only, the entries stay.
Builder_reserve(b, capacity) == b

\* ArrayBuilder::push_n of the concrete builders.
Builder_push_n(b, n, o) ==
    [b EXCEPT !.data = @ \o Rep(n, IF o.some THEN o.v ELSE DefaultItem(b.item)),
              !.valid = @ \o Rep(n, o.some)]

\* ArrayBuilder::push.
Builder_push(b, o) == Builder_push_n(b, 1, o)

\* ArrayBuilder::append of the concrete builders.
Builder_append(b, other) ==
    [b EXCEPT !.data = @ \o other.data, !.valid = @ \o other.valid]

\* extend_from_nulls that grows the validity vector only.
Builder_extend_from_nulls_bits(b, count) == [b EXCEPT !.valid = @ \o Rep(count, FALSE)]

\* ArrayBuilder::extend_from_nulls of the concrete builders: count null entries.
Builder_extend_from_nulls(b, count) ==
    [b EXCEPT !.data = @ \o Rep(count, DefaultItem(b.item)),
              !.valid = @ \o Rep(count, FALSE)]

\* ArrayBuilder::extend_from_raw_data of the concrete builders: the raw values,
\* every one non-null.
Builder_extend_from_raw_data(b, raw) ==
    [b EXCEPT !.data = @ \o raw, !.valid = @ \o Rep(Len(raw), TRUE)]

\* ArrayBuilder::replace_bitmap of the concrete builders: the validity vector is
\* overwritten with the one given, whatever its length; matching the length is
\* left to the caller.
Builder_replace_bitmap(b, valid) == [b EXCEPT !.valid = valid]

\* ArrayBuilder::take of the concrete builders: the array, and the builder left.
Builder_take(b) ==
    [array |-> [item |-> b.item, data |-> b.data, valid |-> b.valid],
     builder |-> [item |-> b.item, data |-> <<>>, valid |-> <<>>]]

\* ArrayBuilder::finish.
Builder_finish(b) == Builder_take(b).array

\* Array::len, is_null and get_raw of the concrete arrays.
Array_len(a) == Len(a.data)
Array_is_null(a, idx) == ~a.valid[idx + 1]
Array_get_raw(a, idx) == a.data[idx + 1]

\* Whether idx names a row: is_null and get_raw are for idx < len only, and
\* fail fatally past it.
Array_in_bounds(a, idx) == idx < Array_len(a)

MsgIndex == "index out of bounds"

\* get that answers with the raw value whatever the validity bit says.
Array_get_unchecked(a, idx) == SomeOpt(Array_get_raw(a, idx))

\* Array::get.
Array_get(a, idx) ==
    IF Array_is_null(a, idx) THEN NoneOpt ELSE SomeOpt(Array_get_raw(a, idx))

\* Array::iter, as the sequence it yields.
Array_iter(a) == [i \in 1..Array_len(a) |-> Array_get(a, i - 1)]

\* Array::filter of the concrete arrays: the rows at the true positions of p,
\* pushed through a fresh builder.
RECURSIVE FilterFrom(_, _, _, _)
FilterFrom(a, p, i, b) ==
    IF i >= Len(p) THEN b
    ELSE FilterFrom(a, p, i + 1, IF p[i + 1] THEN Builder_push(b, Array_get(a, i)) ELSE b)

Array_filter(a, p) ==
    Builder_finish(FilterFrom(a, p, 0, Builder_with_capacity(a.item, Array_len(a))))

\* A RangeBounds<usize> bound.
Included(n) == [bound |-> "Included", n |-> n]
Excluded(n) == [bound |-> "Excluded", n |-> n]
Unbounded == [bound |-> "Unbounded", n |-> 0]

\* n + 1 on usize: at usize::MAX a build with overflow checks panics and one
\* without wraps to 0.
AddOne(n, overflowChecks) ==
    IF n = UsizeMax
    THEN (IF overflowChecks THEN [ok |-> FALSE, n |-> 0] ELSE [ok |-> TRUE, n |-> 0])
    ELSE [ok |-> TRUE, n |-> n + 1]

MsgOverflow == "attempt to add with overflow"
MsgStartAfterEnd == "range start must not be greater than end"
MsgEndOutOfBounds == "range end out of bounds"

\* The loop of slice pushing get_raw(i) in place of get(i).
RECURSIVE SliceFrom_raw(_, _, _, _)
SliceFrom_raw(a, i, end, b) ==
    IF i >= end THEN b
    ELSE SliceFrom_raw(a, i + 1, end, Builder_push(b, SomeOpt(Array_get_raw(a, i))))

\* The loop of slice: for i in begin..end, builder.push(self.get(i)).
RECURSIVE SliceFrom(_, _, _, _)
SliceFrom(a, i, end, b) ==
    IF i >= end THEN b
    ELSE SliceFrom(a, i + 1, end, Builder_push(b, Array_get(a, i)))

\* ArrayExt::slice: [res |-> "ok", array |-> the slice], or [res |-> "panic"]
\* with the message of the failure in info.
ArrayExt_slice(a, start, end, overflowChecks) ==
    LET len == Array_len(a)
        begin == CASE start.bound = "Included" -> [ok |-> TRUE, n |-> start.n]
                   [] start.bound = "Excluded" -> AddOne(start.n, overflowChecks)
                   [] OTHER -> [ok |-> TRUE, n |-> 0]
        stop == CASE end.bound = "Included" -> AddOne(end.n, overflowChecks)
                  [] end.bound = "Excluded" -> [ok |-> TRUE, n |-> end.n]
                  [] OTHER -> [ok |-> TRUE, n |-> len]
    IN IF ~begin.ok \/ ~stop.ok THEN [res |-> "panic", info |-> MsgOverflow, array |-> a]
       ELSE IF ~(begin.n <= stop.n)
       THEN [res |-> "panic", info |-> MsgStartAfterEnd, array |-> a]
       ELSE IF ~(stop.n <= len)
       THEN [res |-> "panic", info |-> MsgEndOutOfBounds, array |-> a]
       ELSE [res |-> "ok", info |-> "",
             array |-> Builder_finish(SliceFrom(a, begin.n, stop.n,
                           Builder_with_capacity(a.item, stop.n - begin.n)))]

\* --------------------------------------------------------------- DataValue

\* DataValue: the Null case, or the case of a kind carrying a value.
DV_Null == [tag |-> "Null", val |-> <<>>]
DV(k, v) == [tag |-> k, val |-> v]

\* The values of each kind the model moves through push and From<&DataValue>.
Values(k) ==
    CASE k = "Null" -> {}
      [] k = "Bool" -> {T_true, T_false}
      [] k \in {"Int16", "Int32", "Int64"} -> {T_42, T_7}
      [] k \in {"Float64", "Decimal"} -> {T_42, T_1p5}
      [] k = "Date" -> {T_date, T_date2}
      [] k = "Timestamp" -> {T_ts, T_ts2}
      [] k = "TimestampTz" -> {T_tstz, T_tstz2}
      [] k = "Interval" -> {T_day, T_day2}
      [] k = "String" -> {T_nan, T_empty}
      [] k = "Blob" -> {T_blob, T_blob2}
      [] OTHER -> {T_vec, T_vec2}

DataValues == {DV_Null} \cup UNION {{DV(k, v) : v \in Values(k)} : k \in KindsWithoutNull}


\* -------------------------------------------------------- ArrayBuilderImpl

\* An ArrayBuilderImpl is [tag, b]: the case and the concrete builder in it; an
\* ArrayImpl is [tag, a].  A call that can fail returns an outcome: res is
\* "ok", "panic" (a fatal failure, info its message, types the type strings and
\* value the DataValue the message shows) or, for push_str, "err" (the
\* ConvertError returned: info its constructor, text the offending text).
Done(bi) ==
    [res |-> "ok", builder |-> bi, info |-> "", types |-> <<>>, value |-> DV_Null,
     text |-> <<>>]
Panic(bi, info, types, value) ==
    [res |-> "panic", builder |-> bi, info |-> info, types |-> types, value |-> value,
     text |-> <<>>]
Err(bi, ctor, s) ==
    [res |-> "err", builder |-> bi, info |-> ctor, types |-> <<>>, value |-> DV_Null,
     text |-> s]

MsgPush == "failed to push value: type mismatch"
MsgAppend == "failed to append array: type mismatch"
MsgStruct == "not yet implemented: array of Struct type"

\* ArrayBuilderImpl::type_string.
ArrayBuilderImpl_type_string(bi) ==
    IF bi.tag = "Null" THEN "NULL" ELSE bi.tag

\* ArrayImpl::type_string.
ArrayImpl_type_string(ai) ==
    IF ai.tag = "Null" THEN "NULL" ELSE ai.tag

\* ArrayBuilderImpl::reserve.
ArrayBuilderImpl_reserve(bi, capacity) ==
    [bi EXCEPT !.b = Builder_reserve(@, capacity)]

\* from_type_of_array with the null-only arm taken for every array.
ArrayBuilderImpl_from_type_of_array_null(array) ==
    [tag |-> "Null", b |-> Builder_new("Null")]

\* ArrayBuilderImpl::from_type_of_array.
ArrayBuilderImpl_from_type_of_array(array) ==
    IF array.tag = "Null"
    THEN [tag |-> "Null", b |-> Builder_new("Null")]
    ELSE [tag |-> array.tag, b |-> Builder_new(array.tag)]

\* ArrayBuilderImpl::with_capacity: todo!() on a Struct type.
ArrayBuilderImpl_with_capacity(capacity, ty) ==
    IF ty = "Null"
    THEN Done([tag |-> "Null", b |-> Builder_with_capacity("Null", capacity)])
    ELSE IF ty = "Struct"
    THEN Panic([tag |-> "Null", b |-> Builder_new("Null")], MsgStruct, <<>>, DV_Null)
    ELSE Done([tag |-> ty, b |-> Builder_with_capacity(ty, capacity)])

\* ArrayBuilderImpl::new.
ArrayBuilderImpl_new(ty) == ArrayBuilderImpl_with_capacity(0, ty)

\* push_n that looks at the value only when it has something to append.
ArrayBuilderImpl_push_n_lazy(bi, n, v) ==
    IF n = 0
    THEN Done(bi)
    ELSE IF bi.tag = "Null" /\ v.tag = "Null"
    THEN Done([bi EXCEPT !.b = Builder_push_n(@, n, NoneOpt)])
    ELSE IF bi.tag \in KindsWithoutNull /\ v.tag = bi.tag
    THEN Done([bi EXCEPT !.b = Builder_push_n(@, n, SomeOpt(v.val))])
    ELSE IF bi.tag \in KindsWithoutNull /\ v.tag = "Null"
    THEN Done([bi EXCEPT !.b = Builder_push_n(@, n, NoneOpt)])
    ELSE Panic(bi, MsgPush, <<ArrayBuilderImpl_type_string(bi)>>, v)

\* ArrayBuilderImpl::push_n.
ArrayBuilderImpl_push_n(bi, n, v) ==
    IF bi.tag = "Null" /\ v.tag = "Null"
    THEN Done([bi EXCEPT !.b = Builder_push_n(@, n, NoneOpt)])
    ELSE IF bi.tag \in KindsWithoutNull /\ v.tag = bi.tag
    THEN Done([bi EXCEPT !.b = Builder_push_n(@, n, SomeOpt(v.val))])
    ELSE IF bi.tag \in KindsWithoutNull /\ v.tag = "Null"
    THEN Done([bi EXCEPT !.b = Builder_push_n(@, n, NoneOpt)])
    ELSE Panic(bi, MsgPush, <<ArrayBuilderImpl_type_string(bi)>>, v)

\* ArrayBuilderImpl::push.
ArrayBuilderImpl_push(bi, v) ==
    IF bi.tag = "Null" /\ v.tag = "Null"
    THEN Done([bi EXCEPT !.b = Builder_push(@, NoneOpt)])
    ELSE IF bi.tag \in KindsWithoutNull /\ v.tag = bi.tag
    THEN Done([bi EXCEPT !.b = Builder_push(@, SomeOpt(v.val))])
    ELSE IF bi.tag \in KindsWithoutNull /\ v.tag = "Null"
    THEN Done([bi EXCEPT !.b = Builder_push(@, NoneOpt)])
    ELSE Panic(bi, MsgPush, <<ArrayBuilderImpl_type_string(bi)>>, v)

\* take that hands out the array and leaves the builder's entries in place.
ArrayBuilderImpl_take_copy(bi) ==
    [array |-> [tag |-> bi.tag, a |-> Builder_take(bi.b).array], builder |-> bi]

\* ArrayBuilderImpl::take: the array, and the builder left.
ArrayBuilderImpl_take(bi) ==
    IF bi.tag = "Null"
    THEN [array |-> [tag |-> "Null", a |-> Builder_take(bi.b).array],
          builder |-> [bi EXCEPT !.b = Builder_take(@).builder]]
    ELSE [array |-> [tag |-> bi.tag, a |-> Builder_take(bi.b).array],
          builder |-> [bi EXCEPT !.b = Builder_take(@).builder]]

\* ArrayBuilderImpl::finish.
ArrayBuilderImpl_finish(bi) ==
    IF bi.tag = "Null"
    THEN [tag |-> "Null", a |-> Builder_finish(bi.b)]
    ELSE [tag |-> bi.tag, a |-> Builder_finish(bi.b)]

\* append that takes a null-only array onto a builder of any kind.
ArrayBuilderImpl_append_nulls(bi, array_impl) ==
    IF array_impl.tag = "Null" \/ array_impl.tag = bi.tag
    THEN Done([bi EXCEPT !.b = Builder_append(@, array_impl.a)])
    ELSE Panic(bi, MsgAppend,
               <<ArrayBuilderImpl_type_string(bi), ArrayImpl_type_string(array_impl)>>, DV_Null)

\* ArrayBuilderImpl::append.
ArrayBuilderImpl_append(bi, array_impl) ==
    IF bi.tag = "Null" /\ array_impl.tag = "Null"
    THEN Done([bi EXCEPT !.b = Builder_append(@, array_impl.a)])
    ELSE IF bi.tag \in KindsWithoutNull /\ array_impl.tag = bi.tag
    THEN Done([bi EXCEPT !.b = Builder_append(@, array_impl.a)])
    ELSE Panic(bi, MsgAppend,
               <<ArrayBuilderImpl_type_string(bi), ArrayImpl_type_string(array_impl)>>, DV_Null)

\* The parse push_str applies for each kind; String is stored verbatim.
ParseFor(kind, s) ==
    CASE kind = "Bool" -> ParseBool(s)
      [] kind = "Int16" -> ParseInt(s, I16Max, I16MinMag)
      [] kind = "Int32" -> ParseInt(s, I32Max, I32MinMag)
      [] kind = "Int64" -> ParseInt(s, I64Max, I64MinMag)
      [] kind = "Float64" -> ParseFloat(s)
      [] kind = "String" -> ParseOk(s)
      [] kind = "Blob" -> ParseBlob(s)
      [] kind = "Vector" -> ParseVector(s)
      [] kind = "Decimal" -> ParseDecimal(s)
      [] kind = "Date" -> ParseDate(s)
      [] kind = "Timestamp" -> ParseTimestamp(s)
      [] kind = "TimestampTz" -> ParseTimestampTz(s)
      [] kind = "Interval" -> ParseInterval(s)

\* The ConvertError constructor push_str wraps a kind's parse failure in.
ConvertErrorFor(kind) ==
    CASE kind = "Bool" -> "ParseBool"
      [] kind \in {"Int16", "Int32", "Int64"} -> "ParseInt"
      [] kind = "Float64" -> "ParseFloat"
      [] kind = "Blob" -> "ParseBlob"
      [] kind = "Vector" -> "ParseVector"
      [] kind = "Decimal" -> "ParseDecimal"
      [] kind = "Date" -> "ParseDate"
      [] kind = "Timestamp" -> "ParseTimestamp"
      [] kind = "TimestampTz" -> "ParseTimestampTz"
      [] kind = "Interval" -> "ParseInterval"

\* push_str with the entry pushed before the parse is looked at: a null on a
\* parse failure, and no empty-means-null rule for String.
ArrayBuilderImpl_push_str_eager(bi, s) ==
    IF bi.tag = "Null"
    THEN Done([bi EXCEPT !.b = Builder_push(@, NoneOpt)])
    ELSE IF bi.tag = "String"
    THEN Done([bi EXCEPT !.b = Builder_push(@, SomeOpt(s))])
    ELSE IF s = <<>>
    THEN Done([bi EXCEPT !.b = Builder_push(@, NoneOpt)])
    ELSE IF ~ParseFor(bi.tag, s).ok
    THEN Err([bi EXCEPT !.b = Builder_push(@, NoneOpt)], ConvertErrorFor(bi.tag), s)
    ELSE Done([bi EXCEPT !.b = Builder_push(@, SomeOpt(ParseFor(bi.tag, s).v))])

\* push_str with the arm of the null-only kind guarded like the others: a text
\* that is not empty is an error there.
ArrayBuilderImpl_push_str_guarded(bi, s) ==
    IF s = <<>>
    THEN Done([bi EXCEPT !.b = Builder_push(@, NoneOpt)])
    ELSE IF bi.tag = "Null"
    THEN Err(bi, "ParseNull", s)
    ELSE IF ~ParseFor(bi.tag, s).ok
    THEN Err(bi, ConvertErrorFor(bi.tag), s)
    ELSE Done([bi EXCEPT !.b = Builder_push(@, SomeOpt(ParseFor(bi.tag, s).v))])

\* ArrayBuilderImpl::push_str.
ArrayBuilderImpl_push_str(bi, s) ==
    LET null == s = <<>>
    IN IF bi.tag = "Null"
       THEN Done([bi EXCEPT !.b = Builder_push(@, NoneOpt)])
       ELSE IF null
       THEN Done([bi EXCEPT !.b = Builder_push(@, NoneOpt)])
       ELSE IF ~ParseFor(bi.tag, s).ok
       THEN Err(bi, ConvertErrorFor(bi.tag), s)
       ELSE Done([bi EXCEPT !.b = Builder_push(@, SomeOpt(ParseFor(bi.tag, s).v))])

\* --------------------------------------------------------------- ArrayImpl

\* ArrayImpl::len.
ArrayImpl_len(ai) == Array_len(ai.a)

\* ArrayImpl::is_empty.
ArrayImpl_is_empty(ai) == ArrayImpl_len(ai) = 0

\* Whether get or get_to_string reads the concrete array past its rows: the arm
\* of the null-only kind reads nothing, every other arm calls a.get(idx).
ArrayImpl_get_reads_all(ai, idx) == ~Array_in_bounds(ai.a, idx)

ArrayImpl_get_fails(ai, idx) == ai.tag # "Null" /\ ~Array_in_bounds(ai.a, idx)

\* get that wraps the raw value whatever the validity bit says.
ArrayImpl_get_unchecked(ai, idx) ==
    IF ai.tag = "Null" THEN DV_Null ELSE DV(ai.tag, Array_get_raw(ai.a, idx))

\* ArrayImpl::get.
ArrayImpl_get(ai, idx) ==
    IF ai.tag = "Null" THEN DV_Null
    ELSE IF Array_get(ai.a, idx).some
    THEN DV(ai.tag, Array_get(ai.a, idx).v)
    ELSE DV_Null

\* ArrayImpl::get_to_string.
ArrayImpl_get_to_string(ai, idx) ==
    IF ai.tag = "Null" THEN T_NULL
    ELSE IF Array_get(ai.a, idx).some
    THEN Array_get(ai.a, idx).v
    ELSE T_NULL

\* ArrayImpl::iter, as the sequence it yields.
ArrayImpl_iter(ai) == [i \in 1..ArrayImpl_len(ai) |-> ArrayImpl_get(ai, i - 1)]

\* filter with the null-only arm taken for every array.
ArrayImpl_filter_null(ai, visibility) ==
    [tag |-> "Null", a |-> Array_filter(ai.a, visibility)]

\* ArrayImpl::filter.
ArrayImpl_filter(ai, visibility) ==
    IF ai.tag = "Null"
    THEN [tag |-> "Null", a |-> Array_filter(ai.a, visibility)]
    ELSE [tag |-> ai.tag, a |-> Array_filter(ai.a, visibility)]

\* ArrayImpl::slice: [res, info, array].
ArrayImpl_slice(ai, start, end, overflowChecks) ==
    LET r == ArrayExt_slice(ai.a, start, end, overflowChecks)
    IN IF ai.tag = "Null"
       THEN [res |-> r.res, info |-> r.info, array |-> [tag |-> "Null", a |-> r.array]]
       ELSE [res |-> r.res, info |-> r.info, array |-> [tag |-> ai.tag, a |-> r.array]]

\* From<&DataValue> for ArrayImpl: a single element array.
ArrayImpl_from(val) ==
    IF val.tag = "Null"
    THEN [tag |-> "Null", a |-> Builder_finish(Builder_push(Builder_new("Null"), NoneOpt))]
    ELSE [tag |-> val.tag,
          a |-> Builder_finish(Builder_push(Builder_new(val.tag), SomeOpt(val.val)))]

\* ------------------------------------------------------------------- state

VARIABLES
    builder,    \* the caller's ArrayBuilderImpl
    live,       \* FALSE once finish has consumed the builder
    arr,        \* the ArrayImpl the caller holds, NoArray before the first one
    last,       \* the last call and what it returned or failed with
    pushed,     \* the DataValues appended to the builder since it was made or taken
    taken,      \* whether take has been called on the builder
    probe,      \* under SpecArray, the arguments of the filter or slice call
    got         \* what the last read of the array returned

vars == <<builder, live, arr, last, pushed, taken, probe, got>>

NoArray == [tag |-> "Unset", a |-> [item |-> "Unset", data |-> <<>>, valid |-> <<>>]]

NoProbe == [mask |-> <<>>, start |-> Unbounded, end |-> Unbounded, oc |-> FALSE]

\* Nothing read yet: the index asked for, and one field for each read's answer.
NoRead ==
    [idx |-> 0, value |-> DV_Null, text |-> <<>>, len |-> 0, name |-> "", rows |-> <<>>,
     null |-> FALSE, opt |-> NoneOpt, raw |-> <<>>]

\* The record of a call: of one with an outcome r, and of one that cannot fail.
Outcome(op, r) ==
    [op |-> op, res |-> r.res, info |-> r.info, types |-> r.types, value |-> r.value,
     text |-> r.text]
Call(op) ==
    [op |-> op, res |-> "ok", info |-> "", types |-> <<>>, value |-> DV_Null, text |-> <<>>]

BuilderLen(bi) == Len(bi.b.data)

\* A fatal failure ends the process: no call follows it.
Running == last.res # "panic"

\* A fresh builder of any kind, and no array yet.
Init ==
    /\ \E ty \in Kinds : builder = ArrayBuilderImpl_new(ty).builder
    /\ live = TRUE
    /\ arr = NoArray
    /\ last = Call("new")
    /\ pushed = <<>>
    /\ taken = FALSE
    /\ probe = NoProbe
    /\ got = NoRead

\* ----------------------------------------------------------------- actions

\* let builder = ArrayBuilderImpl::new(ty)
New(ty) ==
    /\ Running
    /\ LET r == ArrayBuilderImpl_new(ty)
       IN /\ last' = Outcome("new", r)
          /\ IF r.res = "ok"
             THEN builder' = r.builder /\ live' = TRUE /\ pushed' = <<>> /\ taken' = FALSE
             ELSE UNCHANGED <<builder, live, pushed, taken>>
    /\ UNCHANGED <<arr, probe, got>>

\* let builder = ArrayBuilderImpl::from_type_of_array(&arr)
FromTypeOfArray ==
    /\ Running
    /\ arr # NoArray
    /\ builder' = ArrayBuilderImpl_from_type_of_array(arr)
    /\ live' = TRUE
    /\ pushed' = <<>>
    /\ taken' = FALSE
    /\ last' = Call("from_type_of_array")
    /\ UNCHANGED <<arr, probe, got>>

\* builder.reserve(capacity)
Reserve(capacity) ==
    /\ Running /\ live
    /\ builder' = ArrayBuilderImpl_reserve(builder, capacity)
    /\ last' = Call("reserve")
    /\ UNCHANGED <<live, arr, pushed, taken, probe, got>>

\* builder.push(&v)
Push(v) ==
    /\ Running /\ live
    /\ LET r == ArrayBuilderImpl_push(builder, v)
       IN /\ builder' = r.builder
          /\ last' = Outcome("push", r)
          /\ pushed' = IF r.res = "ok" THEN Append(pushed, v) ELSE pushed
    /\ UNCHANGED <<live, arr, taken, probe, got>>

\* builder.push_n(n, &v)
PushN(n, v) ==
    /\ Running /\ live
    /\ LET r == ArrayBuilderImpl_push_n(builder, n, v)
       IN /\ builder' = r.builder
          /\ last' = Outcome("push_n", r)
          /\ pushed' = IF r.res = "ok" THEN pushed \o Rep(n, v) ELSE pushed
    /\ UNCHANGED <<live, arr, taken, probe, got>>

\* The DataValue a text stands for in a builder of a kind.
TextValue(kind, s) ==
    IF kind = "Null" \/ s = <<>> THEN DV_Null ELSE DV(kind, ParseFor(kind, s).v)

\* builder.push_str(s)
PushStr(s) ==
    /\ Running /\ live
    /\ LET r == ArrayBuilderImpl_push_str(builder, s)
       IN /\ builder' = r.builder
          /\ last' = Outcome("push_str", r)
          /\ pushed' = IF r.res = "ok" THEN Append(pushed, TextValue(builder.tag, s))
                       ELSE pushed
    /\ UNCHANGED <<live, arr, taken, probe, got>>

\* builder.append(&arr)
AppendArray ==
    /\ Running /\ live
    /\ arr # NoArray
    /\ LET r == ArrayBuilderImpl_append(builder, arr)
       IN /\ builder' = r.builder
          /\ last' = Outcome("append", r)
          /\ pushed' = IF r.res = "ok" THEN pushed \o ArrayImpl_iter(arr) ELSE pushed
    /\ UNCHANGED <<live, arr, taken, probe, got>>

\* arr = builder.take()
Take ==
    /\ Running /\ live
    /\ arr' = ArrayBuilderImpl_take(builder).array
    /\ builder' = ArrayBuilderImpl_take(builder).builder
    /\ pushed' = <<>>
    /\ taken' = TRUE
    /\ last' = Call("take")
    /\ UNCHANGED <<live, probe, got>>

\* arr = builder.finish(): the builder is consumed
Finish ==
    /\ Running /\ live
    /\ arr' = ArrayBuilderImpl_finish(builder)
    /\ builder' = [builder EXCEPT !.b = Builder_new(builder.b.item)]
    /\ live' = FALSE
    /\ pushed' = <<>>
    /\ last' = Call("finish")
    /\ UNCHANGED <<taken, probe, got>>

\* arr = ArrayImpl::from(&v)
FromValue(v) ==
    /\ Running
    /\ arr' = ArrayImpl_from(v)
    /\ last' = Call("from")
    /\ UNCHANGED <<builder, live, pushed, taken, probe, got>>

\* arr = arr.filter(&visibility), the mask as long as the array; the
\* specification says what probe keeps of the call
Filter(visibility) ==
    /\ Running
    /\ arr # NoArray
    /\ Len(visibility) = ArrayImpl_len(arr)
    /\ arr' = ArrayImpl_filter(arr, visibility)
    /\ last' = Call("filter")
    /\ UNCHANGED <<builder, live, pushed, taken, got>>

\* arr = arr.slice((start, end)), in a build with or without overflow checks
Slice(start, end, overflowChecks) ==
    /\ Running
    /\ arr # NoArray
    /\ LET r == ArrayImpl_slice(arr, start, end, overflowChecks)
       IN /\ last' = [Call("slice") EXCEPT !.res = r.res, !.info = r.info]
          /\ arr' = IF r.res = "ok" THEN r.array ELSE arr
    /\ UNCHANGED <<builder, live, pushed, taken, got>>

\* On the concrete builder in builder: b.extend_from_raw_data(&raw)
ExtendFromRawData(raw) ==
    /\ Running /\ live
    /\ builder' = [builder EXCEPT !.b = Builder_extend_from_raw_data(@, raw)]
    /\ last' = Call("extend_from_raw_data")
    /\ pushed' = pushed \o [i \in 1..Len(raw) |-> DV(builder.tag, raw[i])]
    /\ UNCHANGED <<live, arr, taken, probe, got>>

\* On the concrete builder in builder: b.extend_from_nulls(count)
ExtendFromNulls(count) ==
    /\ Running /\ live
    /\ builder' = [builder EXCEPT !.b = Builder_extend_from_nulls(@, count)]
    /\ last' = Call("extend_from_nulls")
    /\ pushed' = pushed \o Rep(count, DV_Null)
    /\ UNCHANGED <<live, arr, taken, probe, got>>

\* On the concrete builder in builder: b.replace_bitmap(valid)
ReplaceBitmap(valid) ==
    /\ Running /\ live
    /\ builder' = [builder EXCEPT !.b = Builder_replace_bitmap(@, valid)]
    /\ last' = Call("replace_bitmap")
    /\ UNCHANGED <<live, arr, pushed, taken, probe, got>>

\* The outcome of a read: fatal when it indexes past the rows.
ReadCall(op, fails) ==
    IF fails THEN [Call(op) EXCEPT !.res = "panic", !.info = MsgIndex] ELSE Call(op)

\* arr.get(idx)
Get(idx) ==
    /\ Running
    /\ arr # NoArray
    /\ last' = ReadCall("get", ArrayImpl_get_fails(arr, idx))
    /\ got' = IF ArrayImpl_get_fails(arr, idx) THEN [NoRead EXCEPT !.idx = idx]
              ELSE [NoRead EXCEPT !.idx = idx, !.value = ArrayImpl_get(arr, idx)]
    /\ UNCHANGED <<builder, live, arr, pushed, taken, probe>>

\* arr.get_to_string(idx)
GetToString(idx) ==
    /\ Running
    /\ arr # NoArray
    /\ last' = ReadCall("get_to_string", ArrayImpl_get_fails(arr, idx))
    /\ got' = IF ArrayImpl_get_fails(arr, idx) THEN [NoRead EXCEPT !.idx = idx]
              ELSE [NoRead EXCEPT !.idx = idx, !.text = ArrayImpl_get_to_string(arr, idx)]
    /\ UNCHANGED <<builder, live, arr, pushed, taken, probe>>

\* arr.len()
LenOf ==
    /\ Running
    /\ arr # NoArray
    /\ last' = Call("len")
    /\ got' = [NoRead EXCEPT !.len = ArrayImpl_len(arr)]
    /\ UNCHANGED <<builder, live, arr, pushed, taken, probe>>

\* arr.type_string()
TypeString ==
    /\ Running
    /\ arr # NoArray
    /\ last' = Call("type_string")
    /\ got' = [NoRead EXCEPT !.name = ArrayImpl_type_string(arr)]
    /\ UNCHANGED <<builder, live, arr, pushed, taken, probe>>

\* arr.iter().collect()
Iter ==
    /\ Running
    /\ arr # NoArray
    /\ last' = Call("iter")
    /\ got' = [NoRead EXCEPT !.rows = ArrayImpl_iter(arr)]
    /\ UNCHANGED <<builder, live, arr, pushed, taken, probe>>

\* On the concrete array in arr: a.is_null(idx), a.get(idx) and, for a row that
\* is not null, a.get_raw(idx).
ReadRow(idx) ==
    /\ Running
    /\ arr # NoArray
    /\ last' = ReadCall("row", ~Array_in_bounds(arr.a, idx))
    /\ got' = IF ~Array_in_bounds(arr.a, idx) THEN [NoRead EXCEPT !.idx = idx]
              ELSE [NoRead EXCEPT !.idx = idx,
                                  !.null = Array_is_null(arr.a, idx),
                                  !.opt = Array_get(arr.a, idx),
                                  !.raw = Array_get_raw(arr.a, idx)]
    /\ UNCHANGED <<builder, live, arr, pushed, taken, probe>>

\* ---------------------------------------------------------- specifications

Room(n, max) == BuilderLen(builder) + n <= max

\* The builder's ingestion calls, over every value and text of the model.
NextIngest ==
    \/ \E ty \in DataTypes : New(ty)
    \/ \E n \in 0..MaxN : Reserve(n)
    \/ \E v \in DataValues : Room(1, MaxLen) /\ Push(v)
    \/ \E n \in 0..MaxN, v \in DataValues : Room(n, MaxLen) /\ PushN(n, v)
    \/ \E s \in Texts : Room(1, MaxLen) /\ PushStr(s)

SpecIngest == Init /\ [][NextIngest]_vars

\* The concrete builder of kind k after pushing a sequence of Option values.
RECURSIVE PushAll(_, _)
PushAll(b, opts) ==
    IF opts = <<>> THEN b ELSE PushAll(Builder_push(b, Head(opts)), Tail(opts))

\* The array of kind k a fresh builder makes of a sequence of Option values.
ArrayOf(k, opts) == [tag |-> k, a |-> Builder_finish(PushAll(Builder_new(k), opts))]

Opts(k) == {NoneOpt} \cup {SomeOpt(v) : v \in Values(k)}

OptSeqs(k, max) == UNION {[1..n -> Opts(k)] : n \in 0..max}

Arrays(max) == UNION {{ArrayOf(k, opts) : opts \in OptSeqs(k, max)} : k \in Kinds}

\* An array of any kind and content, held by a caller with no builder.
InitArray ==
    /\ builder = ArrayBuilderImpl_new("Null").builder
    /\ live = FALSE
    /\ arr \in Arrays(MaxArr)
    /\ last = Call("from")
    /\ pushed = <<>>
    /\ taken = FALSE
    /\ probe = NoProbe
    /\ got = NoRead

Masks(max) == UNION {[1..n -> BOOLEAN] : n \in 0..max}

\* The indices a range of the model names: those around the rows of an array,
\* and the largest usize.
Indices == 0..(MaxArr + 1) \cup {UsizeMax}

Bounds == {Unbounded} \cup {Included(n) : n \in Indices} \cup {Excluded(n) : n \in Indices}

\* One filter or one slice of the array, over every mask and every range, with
\* the arguments of the call kept in probe.
NextArray ==
    \/ \E m \in Masks(MaxArr) :
          last.op = "from" /\ Filter(m) /\ probe' = [NoProbe EXCEPT !.mask = m]
    \/ \E start \in Bounds, end \in Bounds, oc \in BOOLEAN :
          /\ last.op = "from"
          /\ Slice(start, end, oc)
          /\ probe' = [mask |-> <<>>, start |-> start, end |-> end, oc |-> oc]

SpecArray == InitArray /\ [][NextArray]_vars

\* The indices read: every row of an array, two past the longest, and the
\* largest usize.
ReadIndices == 0..(MaxArr + 1) \cup {UsizeMax}

\* One read of the array.
NextRead ==
    \/ \E idx \in ReadIndices : last.op = "from" /\ Get(idx)
    \/ \E idx \in ReadIndices : last.op = "from" /\ GetToString(idx)
    \/ last.op = "from" /\ LenOf
    \/ last.op = "from" /\ TypeString
    \/ last.op = "from" /\ Iter
    \/ \E idx \in ReadIndices : last.op = "from" /\ ReadRow(idx)

SpecRead == InitArray /\ [][NextRead]_vars

\* A builder of any kind and content and an array of any kind and content.
InitAppend ==
    /\ \E k \in Kinds : \E opts \in OptSeqs(k, MaxLife) :
          builder = [tag |-> k, b |-> PushAll(Builder_new(k), opts)]
    /\ live = TRUE
    /\ arr \in Arrays(MaxLife)
    /\ last = Call("from")
    /\ pushed = <<>>
    /\ taken = FALSE
    /\ probe = NoProbe
    /\ got = NoRead

\* One append of the array to the builder.
NextAppend == last.op = "from" /\ AppendArray

SpecAppend == InitAppend /\ [][NextAppend]_vars

\* A builder or array whose two vectors are of one length.
SameLength(c) == Len(c.valid) = Len(c.data)

\* The raw values handed to extend_from_raw_data: up to MaxN of the builder's kind.
RawData == UNION {[1..n -> Values(builder.tag)] : n \in 0..MaxN}

\* A builder of any kind and content, as its pushes left it, and no array or an
\* array of the builder's kind.
InitConcrete ==
    /\ \E k \in Kinds : \E opts \in OptSeqs(k, MaxLife) :
          /\ builder = [tag |-> k, b |-> PushAll(Builder_new(k), opts)]
          /\ pushed = [i \in 1..Len(opts) |->
                          IF opts[i].some THEN DV(k, opts[i].v) ELSE DV_Null]
          /\ arr \in {NoArray} \cup {ArrayOf(k, o) : o \in OptSeqs(k, MaxLife)}
    /\ live = TRUE
    /\ last = Call("from")
    /\ taken = FALSE
    /\ probe = NoProbe
    /\ got = NoRead

\* Null and the values of the builder's kind.
KindValues == {DV_Null} \cup {DV(builder.tag, x) : x \in Values(builder.tag)}

\* One call on the concrete builder, reached through its ArrayBuilderImpl for
\* push, push_n, append, take and finish.
NextConcrete ==
    \/ \E v \in KindValues : last.op = "from" /\ Push(v)
    \/ \E n \in 0..MaxN, v \in KindValues : last.op = "from" /\ PushN(n, v)
    \/ last.op = "from" /\ AppendArray
    \/ last.op = "from" /\ Take
    \/ last.op = "from" /\ Finish
    \/ \E raw \in RawData : last.op = "from" /\ ExtendFromRawData(raw)
    \/ \E n \in 0..MaxN : last.op = "from" /\ ExtendFromNulls(n)
    \/ \E valid \in Masks(MaxLife + 1) : last.op = "from" /\ ReplaceBitmap(valid)

SpecConcrete == InitConcrete /\ [][NextConcrete]_vars

\* The inputs of Spec: Null and one value of the builder's kind (both values of
\* Bool), a text that parses for some kinds and one that parses for none but
\* String, an array of the null-only kind and of two others, the ranges that
\* start or end after the first row or are open; no range bound is near
\* usize::MAX, so the build's overflow checks make no difference here.
LifeTexts1 == {T_true, T_false, T_42, T_date, T_ts, T_tstz, T_day, T_nan, T_blob, T_vec}
LifeValues ==
    {v \in DataValues : v = DV_Null \/ (v.tag = builder.tag /\ v.val \in LifeTexts1)}
LifeTexts == {T_empty, T_42, T_nan}
LifeArrays == {DV_Null, DV("Int32", T_42), DV("String", T_nan)}
LifeBounds == {Unbounded, Excluded(1)}

\* Every operation of a builder and of the arrays it makes.
Next ==
    \/ FromTypeOfArray
    \/ \E n \in {0, MaxN} : Reserve(n)
    \/ \E v \in LifeValues : Room(1, MaxLife) /\ Push(v)
    \/ \E n \in 0..MaxN, v \in LifeValues : Room(n, MaxLife) /\ PushN(n, v)
    \/ \E s \in LifeTexts : Room(1, MaxLife) /\ PushStr(s)
    \/ Room(ArrayImpl_len(arr), MaxLife) /\ AppendArray
    \/ Take
    \/ Finish
    \/ \E v \in LifeArrays : FromValue(v)
    \/ \E m \in Masks(MaxLife) : Filter(m) /\ UNCHANGED probe
    \/ \E start \in LifeBounds, end \in LifeBounds :
          Slice(start, end, TRUE) /\ UNCHANGED probe

Spec == Init /\ [][Next]_vars

\* ------------------------------------------------------------------ claims

\* The rows of a concrete builder or array, read off its two vectors.
Rows(c) == [i \in 1..Len(c.data) |-> IF c.valid[i] THEN SomeOpt(c.data[i]) ELSE NoneOpt]

\* A text is a well-formed literal of a kind when the kind's parser accepts it;
\* the null-only kind has no literals.
WellFormed(kind, s) == kind # "Null" /\ ParseFor(kind, s).ok

\* What C1 asks of a push_str(s) step with s not empty and not well formed.
RejectsAndKeeps ==
    /\ last'.res = "err"
    /\ builder' = builder
    /\ pushed' = pushed

\* C1, as stated: for every kind, push_str of a non-empty text that is not a
\* well-formed literal of the kind returns an error and leaves the builder as
\* it was.
C1_PushStrRejectsEveryKind ==
    [][last'.op = "push_str" =>
          \A s \in Texts :
              (s # <<>> /\ ~WellFormed(builder.tag, s) /\ PushStr(s)) => RejectsAndKeeps]_vars

\* C1, amended: for every kind but the null-only kind, push_str of a non-empty
\* text that is not a well-formed literal of the kind returns an error (no
\* fatal failure) and leaves the builder, entries and length, exactly as it
\* was, so that every later call sees the builder the failed call found.
C1_PushStrRejectsParsedKinds ==
    [][(last'.op = "push_str" /\ builder.tag # "Null") =>
          \A s \in Texts :
              (s # <<>> /\ ~WellFormed(builder.tag, s) /\ PushStr(s)) => RejectsAndKeeps]_vars

\* An Int16 builder holding a value after push_str returned the parse error of
\* a text that is no number.
C1_Witness ==
    /\ last.op = "push_str" /\ last.res = "err"
    /\ last.info = "ParseInt" /\ last.text = T_nan
    /\ builder.tag = "Int16"
    /\ Rows(builder.b) = <<SomeOpt(T_42)>>

\* C2: for every kind and every builder state, push_str("") returns Ok and
\* appends exactly one entry, a null; the earlier entries stay.
C2_EmptyTextIsNull ==
    [][(last'.op = "push_str" /\ PushStr(T_empty)) =>
          /\ last'.res = "ok"
          /\ builder'.tag = builder.tag
          /\ Rows(builder'.b) = Append(Rows(builder.b), NoneOpt)]_vars

\* A String builder whose push_str appended a null after the empty string was
\* pushed as a value: only the empty text makes push_str append a null to a
\* String builder.
C2_Witness ==
    /\ last.op = "push_str" /\ last.res = "ok"
    /\ builder.tag = "String"
    /\ Rows(builder.b) = <<SomeOpt(T_empty), NoneOpt>>

\* n consecutive push(v) calls.
RECURSIVE PushTimes(_, _, _)
PushTimes(bi, n, v) ==
    IF n = 0 THEN bi ELSE PushTimes(ArrayBuilderImpl_push(bi, v).builder, n - 1, v)

\* What C8 asks of a push_n(n, v) step; push(v) is the case n = 1.
PushesOrFails(n, v) ==
    IF v = DV_Null
    THEN /\ last'.res = "ok"
         /\ builder'.tag = builder.tag
         /\ Rows(builder'.b) = Rows(builder.b) \o Rep(n, NoneOpt)
    ELSE IF v.tag = builder.tag
    THEN /\ last'.res = "ok"
         /\ builder'.tag = builder.tag
         /\ Rows(builder'.b) = Rows(builder.b) \o Rep(n, SomeOpt(v.val))
    ELSE /\ last'.res = "panic"
         /\ builder' = builder

\* The values a push or push_n step can have been called with: the message
\* of a fatal failure shows the value.
PushedValues == IF last'.res = "panic" THEN {last'.value} ELSE DataValues

\* C8: push(v) and push_n(n, v) append a null (n nulls) for the Null value, the
\* value (n copies) when v's case is the builder's, and otherwise fail fatally
\* and append nothing, for every n, 0 included; push_n(n, v) leaves the builder
\* as n pushes of v do.
C8_PushMatchesOrFails ==
    [][/\ last'.op = "push" => \A v \in PushedValues : Push(v) => PushesOrFails(1, v)
       /\ last'.op = "push_n" =>
             \A n \in 0..MaxN, v \in PushedValues :
                 PushN(n, v) => (PushesOrFails(n, v) /\ builder' = PushTimes(builder, n, v))]_vars

\* push_n failed fatally, over a Bool value, on an Int64 builder that holds an
\* entry.
C8_Witness ==
    /\ last.op = "push_n" /\ last.res = "panic"
    /\ last.value = DV("Bool", T_true)
    /\ builder.tag = "Int64"
    /\ Rows(builder.b) = <<SomeOpt(T_7)>>

\* C3: take and finish return an array of the builder's kind holding exactly
\* the entries pushed since the builder was created or last taken, in order;
\* take leaves the builder empty, so a take or finish that follows it with no
\* push between returns the empty array of the kind.
C3_TakeReturnsPushesSinceLastTake ==
    [][last'.op \in {"take", "finish"} =>
          /\ arr'.tag = builder.tag
          /\ ArrayImpl_len(arr') = Len(pushed)
          /\ ArrayImpl_iter(arr') = pushed
          /\ last'.op = "take" =>
                /\ builder'.tag = builder.tag
                /\ BuilderLen(builder') = 0
                /\ ArrayImpl_len(ArrayBuilderImpl_finish(builder')) = 0
                /\ ArrayBuilderImpl_finish(builder').tag = builder.tag]_vars

\* finish of a builder that was taken before returned only the two entries
\* pushed after the take.
C3_Witness ==
    /\ last.op = "finish"
    /\ taken
    /\ ArrayImpl_iter(arr) = <<DV("Int32", T_42), DV_Null>>

\* C4: finishing a fresh builder after pushing a sequence returns an array of
\* the sequence's length whose iteration yields the pushed elements in push
\* order, a null exactly where a null was pushed.
C4_RoundTrip ==
    [][(last'.op = "finish" /\ ~taken) =>
          LET out == ArrayImpl_iter(arr')
              opts == Array_iter(arr'.a)
          IN /\ ArrayImpl_len(arr') = Len(pushed)
             /\ Len(out) = Len(pushed)
             /\ Len(opts) = Len(pushed)
             /\ \A i \in 1..Len(pushed) :
                   /\ out[i] = pushed[i]
                   /\ ~opts[i].some <=> pushed[i] = DV_Null
                   /\ opts[i].some => DV(arr'.tag, opts[i].v) = pushed[i]]_vars

\* A never taken Bool builder was finished after a null and then true were
\* pushed.
C4_Witness ==
    /\ last.op = "finish"
    /\ ~taken
    /\ ArrayImpl_iter(arr) = <<DV_Null, DV("Bool", T_true)>>

\* C10: filter and slice return an array of their input's kind;
\* from_type_of_array returns an empty builder of the array's kind; push,
\* push_n, push_str, append, reserve and take leave the builder's kind as it
\* is; take and finish return an array of the builder's kind.  The case tag
\* is always that of the wrapped concrete array or builder.
C10_KindPreserved ==
    [][/\ builder'.tag = builder'.b.item
       /\ arr' # NoArray => arr'.tag = arr'.a.item
       /\ last'.op \in {"filter", "slice"} => arr'.tag = arr.tag
       /\ last'.op = "from_type_of_array" =>
             (builder'.tag = arr.tag /\ BuilderLen(builder') = 0)
       /\ last'.op \in {"push", "push_n", "push_str", "append", "reserve", "take"} =>
             builder'.tag = builder.tag
       /\ last'.op \in {"take", "finish"} => arr'.tag = builder.tag]_vars

\* from_type_of_array made an empty String builder out of a String array.
C10_Witness ==
    /\ last.op = "from_type_of_array"
    /\ arr.tag = "String"
    /\ ArrayImpl_len(arr) = 1
    /\ builder.tag = "String"
    /\ BuilderLen(builder) = 0

\* C9: append of an array of the builder's case appends the array's rows,
\* nulls included, after the builder's; append of an array of another case
\* fails fatally and appends nothing.
C9_AppendMatchesOrFails ==
    [][last'.op = "append" =>
          IF arr.tag = builder.tag
          THEN /\ last'.res = "ok"
               /\ builder'.tag = builder.tag
               /\ Rows(builder'.b) = Rows(builder.b) \o Rows(arr.a)
          ELSE /\ last'.res = "panic"
               /\ builder' = builder]_vars

\* append of a Null array failed fatally on an Int32 builder that holds an
\* entry.
C9_Witness ==
    /\ last.op = "append" /\ last.res = "panic"
    /\ last.types = <<"Int32", "NULL">>
    /\ arr.tag = "Null" /\ ArrayImpl_len(arr) = 1
    /\ Rows(builder.b) = <<SomeOpt(T_42)>>

\* The 0-based positions of a mask's true entries, in increasing order.
TruePositions(m) == SelectSeq([i \in 1..Len(m) |-> i - 1], LAMBDA k : m[k + 1])

\* C5: a.filter(p) has as many rows as p has true entries, and its j-th row is
\* a.get(k_j), null or not as in a, for k_j the position of the j-th true entry.
C5_FilterKeepsTrueRows ==
    [][last'.op = "filter" =>
          LET k == TruePositions(probe'.mask)
          IN /\ ArrayImpl_len(arr') = Len(k)
             /\ \A j \in 1..Len(k) :
                   /\ ArrayImpl_get(arr', j - 1) = ArrayImpl_get(arr, k[j])
                   /\ Array_is_null(arr'.a, j - 1) = Array_is_null(arr.a, k[j])]_vars

\* A three-row array was filtered by [true, false, true] into a null followed
\* by a value.
C5_Witness ==
    /\ last.op = "filter"
    /\ probe.mask = <<TRUE, FALSE, TRUE>>
    /\ ArrayImpl_iter(arr) = <<DV_Null, DV("Int32", T_7)>>

\* C6: a.slice(0..a.len()) succeeds and returns an array equal to a in kind,
\* length and every row, null or not.
C6_FullSliceIsCopy ==
    [][(/\ last'.op = "slice"
        /\ probe'.start = Included(0)
        /\ probe'.end = Excluded(ArrayImpl_len(arr))) =>
          /\ last'.res = "ok"
          /\ arr'.tag = arr.tag
          /\ ArrayImpl_len(arr') = ArrayImpl_len(arr)
          /\ \A i \in 0..(ArrayImpl_len(arr) - 1) :
                /\ ArrayImpl_get(arr', i) = ArrayImpl_get(arr, i)
                /\ Array_is_null(arr'.a, i) = Array_is_null(arr.a, i)]_vars

\* The slice 0..3 of a three-row String array with a null in the middle.
C6_Witness ==
    /\ last.op = "slice" /\ last.res = "ok"
    /\ probe.start = Included(0) /\ probe.end = Excluded(3)
    /\ ArrayImpl_iter(arr) = <<DV("String", T_nan), DV_Null, DV("String", T_empty)>>

\* The bounds of C7, over the integers: the successor of the largest index is
\* a number past every length.
BeginOf(start) ==
    IF start.bound = "Included" THEN start.n
    ELSE IF start.bound = "Excluded" THEN start.n + 1
    ELSE 0

EndOf(end, len) ==
    IF end.bound = "Included" THEN end.n + 1
    ELSE IF end.bound = "Excluded" THEN end.n
    ELSE len

\* C7, as stated: slice resolves its bounds (included n -> n or n + 1,
\* excluded n -> n + 1 or n, unbounded -> 0 or len) for every n, the largest
\* index included; it returns rows begin..end of a when begin <= end <= len and
\* fails fatally otherwise.
C7_SliceChecksEveryRange ==
    [][last'.op = "slice" =>
          LET len == ArrayImpl_len(arr)
              begin == BeginOf(probe'.start)
              end == EndOf(probe'.end, len)
          IN IF begin <= end /\ end <= len
             THEN /\ last'.res = "ok"
                  /\ ArrayImpl_len(arr') = end - begin
                  /\ \A j \in 0..(end - begin - 1) :
                        ArrayImpl_get(arr', j) = ArrayImpl_get(arr, begin + j)
             ELSE last'.res = "panic"]_vars

\* C11: for an array a of any kind and i < a.len(), a.get(i) is the Null value
\* when row i is null and otherwise the DataValue of a's kind that carries row
\* i's value; a.get_to_string(i) is "NULL" when row i is null and otherwise the
\* value's display; a.len() is the wrapped array's length, and a.type_string()
\* is the kind's name, "NULL" for the null-only kind.
C11_ReadsReproduceRows ==
    [][/\ (last'.op = "get" /\ got'.idx < Len(arr.a.data)) =>
             /\ last'.res = "ok"
             /\ got'.value = (IF Rows(arr.a)[got'.idx + 1].some
                              THEN [tag |-> arr.tag, val |-> Rows(arr.a)[got'.idx + 1].v]
                              ELSE DV_Null)
       /\ (last'.op = "get_to_string" /\ got'.idx < Len(arr.a.data)) =>
             /\ last'.res = "ok"
             /\ got'.text = (IF Rows(arr.a)[got'.idx + 1].some
                             THEN Rows(arr.a)[got'.idx + 1].v
                             ELSE <<"N", "U", "L", "L">>)
       /\ last'.op = "len" => got'.len = Len(arr.a.valid)
       /\ last'.op = "type_string" =>
             got'.name = (IF arr.tag = "Null" THEN "NULL" ELSE arr.tag)]_vars

\* get(1) of the Int32 array [42, null, 7] returned the Null value.
C11_Witness ==
    /\ last.op = "get" /\ last.res = "ok"
    /\ got.idx = 1 /\ got.value = DV_Null
    /\ arr.tag = "Int32"
    /\ Rows(arr.a) = <<SomeOpt(T_42), NoneOpt, SomeOpt(T_7)>>

\* C12: for every array a and i < a.len(), a.is_null(i) is true exactly when
\* a.get(i) is none, and when a.is_null(i) is false a.get(i) is the value
\* a.get_raw(i) returns.
C12_NullExactlyWhenNone ==
    [][(last'.op = "row" /\ got'.idx < Len(arr.a.data)) =>
          /\ last'.res = "ok"
          /\ got'.null <=> ~got'.opt.some
          /\ ~got'.null => (got'.opt.some /\ got'.opt.v = got'.raw)
          /\ got'.null <=> ~arr.a.valid[got'.idx + 1]]_vars

\* Row 1 of the String array ["not_a_number", null] was read: it is null and
\* get returned none.
C12_Witness ==
    /\ last.op = "row" /\ last.res = "ok"
    /\ got.idx = 1 /\ got.null /\ ~got.opt.some
    /\ arr.tag = "String"
    /\ Rows(arr.a) = <<SomeOpt(T_nan), NoneOpt>>

\* C13, as stated: in every state a concrete builder reaches by push, push_n,
\* append, extend_from_raw_data, extend_from_nulls, replace_bitmap and take,
\* the validity vector is as long as the values accumulated, and every array
\* take or finish returns has a validity vector as long as the array.
C13_ValidityLengthAlways ==
    /\ Len(builder.b.valid) = Len(builder.b.data)
    /\ arr # NoArray => Len(arr.a.valid) = Len(arr.a.data)

\* C13, amended: as long as every replace_bitmap is given a vector as long as
\* the values accumulated, each of push, push_n, append, extend_from_raw_data,
\* extend_from_nulls, replace_bitmap, take and finish keeps the builder's
\* validity vector as long as its values, and take and finish return an array
\* whose validity vector is as long as the array.
C13_ValidityLengthKept ==
    [][(/\ SameLength(builder.b)
        /\ arr # NoArray => SameLength(arr.a)
        /\ last'.op = "replace_bitmap" =>
              \A valid \in Masks(MaxLife + 1) :
                  ReplaceBitmap(valid) => Len(valid) = Len(builder.b.data)) =>
          /\ Len(builder'.b.valid) = Len(builder'.b.data)
          /\ arr' # NoArray => Len(arr'.a.valid) = Array_len(arr'.a)
          /\ last'.op \in {"take", "finish"} => Len(arr'.a.valid) = Len(builder.b.data)]_vars

\* replace_bitmap was given a vector of the builder's length and made the first
\* of two pushed values a null.
C13_Witness ==
    /\ last.op = "replace_bitmap"
    /\ pushed = <<DV("Int32", T_42), DV("Int32", T_42)>>
    /\ builder.b.valid = <<FALSE, TRUE>>
    /\ builder.b.data = <<T_42, T_42>>

\* C14: for an array of the null-only kind, get(idx) returns the Null value and
\* get_to_string(idx) returns "NULL" for every idx, those at and past len()
\* included, and neither fails; iter() yields exactly len() Null values.
C14_NullKindReadsAnyIndex ==
    [][arr.tag = "Null" =>
          /\ last'.op = "get" => (last'.res = "ok" /\ got'.value = DV_Null)
          /\ last'.op = "get_to_string" =>
                (last'.res = "ok" /\ got'.text = <<"N", "U", "L", "L">>)
          /\ last'.op = "iter" =>
                got'.rows = [i \in 1..Len(arr.a.data) |-> DV_Null]]_vars

\* get(3) of a null-only array of one row returned the Null value.
C14_Witness ==
    /\ last.op = "get" /\ last.res = "ok"
    /\ arr.tag = "Null" /\ Len(arr.a.data) = 1
    /\ got.idx = 3 /\ got.value = DV_Null

\* C15: on a builder of the null-only kind push_str(s) returns Ok and appends
\* exactly one null for every text s, empty or not, and never an error.
C15_NullKindTakesAnyText ==
    [][(last'.op = "push_str" /\ builder.tag = "Null") =>
          /\ \A s \in Texts : PushStr(s)
          /\ last'.res = "ok"
          /\ builder'.tag = "Null"
          /\ Rows(builder'.b) = Append(Rows(builder.b), NoneOpt)]_vars

\* push_str appended the second null of a builder of the null-only kind.
C15_Witness ==
    /\ last.op = "push_str" /\ last.res = "ok"
    /\ builder.tag = "Null"
    /\ Rows(builder.b) = <<NoneOpt, NoneOpt>>

====
